---- MODULE Spec2Model ----
(***************************************************************************)
(* Model of railway_deploy/app.py: the Flask service that serves the       *)
(* tourism-flow regression model (startup loading, /health, /features,     *)
(* /predict, /predict/simple) and its two pure helpers,                    *)
(* aplicar_correccion_avanzada and categorizar_afluencia.                  *)
(*                                                                         *)
(* Numbers.  Python floats are modelled by exact fixed-point integers:     *)
(*   - a factor is counted in twentieths (0.05), so 1.0 is Uno = 20; all   *)
(*     twelve seasonal factors and the holiday factor 1.15 are multiples   *)
(*     of 0.05;                                                            *)
(*   - factor_total is counted in units of 1/Uno^4, so that the product of *)
(*     up to four factors is exact;                                        *)
(*   - a base prediction is counted in hundredths;                         *)
(*   - a corrected prediction (and every value handed to                   *)
(*     categorizar_afluencia) is counted in units of 1/(100*Uno^4).        *)
(* JSON / Python values are tagged records [t, i, s].                      *)
(***************************************************************************)
EXTENDS Integers, Sequences, FiniteSets, TLC

VARIABLES
    pc,             \* position of the process: "start", "serving", "exited"
    modelo,         \* global modelo: None or the loaded regressor
    features_info,  \* global features_info: None or the loaded schema document
    patrones,       \* global patrones: None or the loaded correction tables
    req,            \* the last request: [endpoint, body]
    resp,           \* the last response: [endpoint, code, body]
    vector,         \* the row last handed to modelo.predict (<<>> if none was)
    prev,           \* history: the response of the other predict endpoint, when
                    \* it was the request just before and for the paired record
    corr,           \* last direct call of aplicar_correccion_avanzada: [args, res]
    catLog          \* the last two calls of categorizar_afluencia, newest first

vars == <<pc, modelo, features_info, patrones, req, resp, vector, prev,
          corr, catLog>>

(***************************************************************************)
(* Values                                                                  *)
(***************************************************************************)
None   == [t |-> "none",   i |-> 0, s |-> ""]    \* Python None / JSON null
Absent == [t |-> "absent", i |-> 0, s |-> ""]    \* the key is not in the dict
Entero(n) == [t |-> "int",    i |-> n, s |-> ""]    \* a JSON integer
Flt(n) == [t |-> "float",  i |-> n, s |-> ""]    \* a JSON number, in twentieths
Str(x) == [t |-> "str",    i |-> 0, s |-> x]     \* a JSON string

IsNumber(v) == v.t \in {"int", "float"}

\* Python truthiness of a JSON scalar (`if es_vacaciones:`, `if not data:`).
Truthy(v) ==
    CASE v.t = "int"   -> v.i # 0
      [] v.t = "float" -> v.i # 0
      [] v.t = "str"   -> v.s # ""
      [] OTHER         -> FALSE

\* str(dia_semana) for the modelled weekday values.
Digitos == <<"0", "1", "2", "3", "4", "5", "6", "7", "8", "9">>
PyStr(v) ==
    CASE v.t = "str" -> v.s
      [] v.t = "int" /\ v.i \in 0..9 -> Digitos[v.i + 1]
      [] OTHER -> "None"

\* provincia.upper() for the modelled province strings.
Upper(x) ==
    CASE x = "pichincha" -> "PICHINCHA"
      [] x = "guayas"    -> "GUAYAS"
      [] x = "xx"        -> "XX"
      [] OTHER           -> x

(***************************************************************************)
(* Fixed-point units                                                       *)
(***************************************************************************)
Uno == 20                                 \* the factor 1.0, in twentieths
FactorTotalUno == Uno * Uno * Uno * Uno   \* factor_total = 1.0
Unidad == 100 * FactorTotalUno            \* the value 1.0 of a prediction
Centesima == FactorTotalUno               \* the value 0.01 of a prediction
Milesima == FactorTotalUno \div 1000         \* factor_total = 0.001

\* A JSON number used as a factor, in twentieths.
Veinteavos(v) == IF v.t = "int" THEN Uno * v.i ELSE v.i

\* round(x, 2) of a prediction, in hundredths, and round(x, 3) of a
\* factor_total, in thousandths: to nearest, ties to even.
RoundTo(x, u) ==
    LET q == x \div u
        r == x % u
    IN  IF 2 * r > u \/ (2 * r = u /\ q % 2 = 1) THEN q + 1 ELSE q

(***************************************************************************)
(* categorizar_afluencia                                                   *)
(***************************************************************************)
categorizar_afluencia_lt(afluencia) ==
    IF afluencia > 35 * Unidad THEN
        [categoria |-> "MUY ALTA",
         recomendacion |-> "Excelente dia para turismo - alta demanda"]
    ELSE IF afluencia > 25 * Unidad THEN
        [categoria |-> "ALTA",
         recomendacion |-> "Muy buen dia para actividades turisticas"]
    ELSE IF afluencia > 15 * Unidad THEN
        [categoria |-> "MEDIA",
         recomendacion |-> "Dia moderado para turismo"]
    ELSE
        [categoria |-> "BAJA",
         recomendacion |-> "Dia tranquilo, menos turismo"]

categorizar_afluencia(afluencia) ==
    IF afluencia >= 35 * Unidad THEN
        [categoria |-> "MUY ALTA",
         recomendacion |-> "Excelente dia para turismo - alta demanda"]
    ELSE IF afluencia >= 25 * Unidad THEN
        [categoria |-> "ALTA",
         recomendacion |-> "Muy buen dia para actividades turisticas"]
    ELSE IF afluencia >= 15 * Unidad THEN
        [categoria |-> "MEDIA",
         recomendacion |-> "Dia moderado para turismo"]
    ELSE
        [categoria |-> "BAJA",
         recomendacion |-> "Dia tranquilo, menos turismo"]

(***************************************************************************)
(* aplicar_correccion_avanzada                                             *)
(***************************************************************************)
FactorVacaciones == 23                    \* 1.15
factores_estacionales == <<22, 21, 19, 18, 18, 24, 25, 26, 18, 19, 20, 23>>

\* One lookup of a correction table, `tabla[clave].get(campo, 1.0)`:
\* [raise, hit, f] -- raise when the entry has no .get, hit when clave is a key.
\* A table entry is [map, f]: map says whether it is a JSON object, f is the
\* value under the factor key (Absent when the key is missing).
Buscar(tabla, clave) ==
    IF clave \notin DOMAIN tabla THEN
        [raise |-> FALSE, hit |-> FALSE, f |-> Flt(Uno)]
    ELSE IF ~tabla[clave].map THEN
        [raise |-> TRUE, hit |-> TRUE, f |-> None]
    ELSE IF tabla[clave].f = Absent THEN
        [raise |-> FALSE, hit |-> TRUE, f |-> Flt(Uno)]
    ELSE
        [raise |-> FALSE, hit |-> TRUE, f |-> tabla[clave].f]

\* `factor_total *= f`: exact, factor_total keeps its unit.
Mul(factor_total, f) == (factor_total * f) \div Uno

\* `if es_vacaciones: ... factor_total *= factor_vacaciones`
AplicarVacaciones_omitida(factor_total, es_vacaciones) == factor_total

AplicarVacaciones(factor_total, es_vacaciones) ==
    IF Truthy(es_vacaciones) THEN Mul(factor_total, FactorVacaciones)
    ELSE factor_total

\* The except branch of aplicar_correccion_avanzada.
Identidad_cero(prediccion_base, msg) ==
    [prediccion_corregida |-> 0,
     factores_aplicados   |-> [error |-> msg],
     factor_total         |-> FactorTotalUno]

Identidad(prediccion_base, msg) ==
    [prediccion_corregida |-> prediccion_base * Centesima,
     factores_aplicados   |-> [error |-> msg],
     factor_total         |-> FactorTotalUno]

\* pat is the global patrones; prediccion_base is in hundredths.  The branches
\* that return Identidad are the statements of the try block that raise.
aplicar_correccion_avanzada(pat, prediccion_base, provincia, dia_semana, es_vacaciones, mes) ==
    IF provincia.t # "str" THEN
        Identidad(prediccion_base, "object has no attribute 'upper'")
    ELSE IF pat = None THEN
        Identidad(prediccion_base, "'NoneType' object is not subscriptable")
    ELSE
    LET p == Buscar(pat.PATRONES_PROVINCIA, Upper(provincia.s))
        d == Buscar(pat.PATRONES_DIA_SEMANA, PyStr(dia_semana))
    IN  IF p.raise THEN
            Identidad(prediccion_base, "object has no attribute 'get'")
        ELSE IF ~IsNumber(p.f) THEN
            Identidad(prediccion_base, "unsupported operand type(s) for *=")
        ELSE IF d.raise THEN
            Identidad(prediccion_base, "object has no attribute 'get'")
        ELSE IF ~IsNumber(d.f) THEN
            Identidad(prediccion_base, "unsupported operand type(s) for *=")
        ELSE
        LET f_vac == IF Truthy(es_vacaciones) THEN FactorVacaciones ELSE Uno
            f_est == IF mes.t = "int" /\ mes.i \in 1..12
                     THEN factores_estacionales[mes.i] ELSE Uno
            ft0 == FactorTotalUno
            ft1 == IF p.hit THEN Mul(ft0, Veinteavos(p.f)) ELSE ft0
            ft2 == IF d.hit THEN Mul(ft1, Veinteavos(d.f)) ELSE ft1
            ft3 == AplicarVacaciones(ft2, es_vacaciones)
            ft4 == Mul(ft3, f_est)
        IN  [prediccion_corregida |-> prediccion_base * ft4,
             factores_aplicados   |->
                 [provincia  |-> IF p.hit THEN Veinteavos(p.f) ELSE Uno,
                  dia_semana |-> IF d.hit THEN Veinteavos(d.f) ELSE Uno,
                  vacaciones |-> f_vac,
                  estacional |-> f_est],
             factor_total         |-> ft4]

(***************************************************************************)
(* Feature alignment and the external regressor                            *)
(***************************************************************************)
\* The keys a request record may carry, and the loaded feature schema.
Keys   == {"provincia", "dia_semana", "Es_Vacaciones", "Mes", "Temperatura"}
Schema == <<"Mes", "Temperatura", "Precipitacion">>

Cols(data) == {k \in DOMAIN data : data[k] # Absent}    \* df_input.columns
Get(data, k, default) ==                                 \* data.get(k, default)
    IF k \in Cols(data) THEN data[k] ELSE default

\* Lines 188-196: DataFrame([data]), the default fill, the reordering.
Alinear_sin_relleno(data, features) ==
    [n \in 1..Len(features) |-> Get(data, features[n], None)]

Alinear(data, features) ==
    LET columnas == Cols(data) \cup {features[n] : n \in 1..Len(features)}
        df == [c \in columnas |-> IF c \in Cols(data) THEN data[c] ELSE Entero(0)]
    IN  [n \in 1..Len(features) |-> df[features[n]]]

\* modelo.predict(df_input)[0]: the regressor is external; it is modelled as
\* a fixed linear function of the row (intercept m.i plus Pesos, in
\* hundredths) that raises on a non-numeric cell.
Pesos == <<1, 100, 10>>
RECURSIVE Suma(_, _)
Suma(vec, n) ==
    IF n = 0 THEN 0 ELSE Pesos[n] * vec[n].i + Suma(vec, n - 1)
ModelPredict(m, vec) ==
    IF \E n \in 1..Len(vec) : ~IsNumber(vec[n])
    THEN [raise |-> TRUE,  y |-> 0]
    ELSE [raise |-> FALSE, y |-> m.i + Suma(vec, Len(vec))]

(***************************************************************************)
(* Request handlers.  Each returns [code, body, vector].                   *)
(* hay_json: the request carries a JSON body; laxo: request.json answers   *)
(* None for a request without one (older Flask) instead of raising.        *)
(***************************************************************************)
R(code, body, vec) == [code |-> code, body |-> body, vector |-> vec]

health_sin_patrones(m, fi, pat) ==
    LET modelo_cargado    == m # None
        features_cargadas == fi # None
        patrones_cargados == pat # None
    IN  R(200,
          [status |-> IF modelo_cargado /\ features_cargadas
                      THEN "healthy" ELSE "error",
           modelo_cargado    |-> modelo_cargado,
           features_cargadas |-> features_cargadas,
           patrones_cargados |-> patrones_cargados,
           timestamp         |-> "now"], <<>>)

health(m, fi, pat) ==
    LET modelo_cargado    == m # None
        features_cargadas == fi # None
        patrones_cargados == pat # None
    IN  R(200,
          [status |-> IF modelo_cargado /\ features_cargadas /\ patrones_cargados
                      THEN "healthy" ELSE "error",
           modelo_cargado    |-> modelo_cargado,
           features_cargadas |-> features_cargadas,
           patrones_cargados |-> patrones_cargados,
           timestamp         |-> "now"], <<>>)

get_features(fi) ==
    IF fi = None THEN R(500, [error |-> "Features no cargadas"], <<>>)
    ELSE R(200, fi, <<>>)

\* `data = request.json; if not data:`
SinDatos_nunca(hay_json, data) == FALSE

SinDatos(hay_json, data) == ~hay_json \/ Cols(data) = {}

\* The except branch of predict.
ErrorPrediccion(msg, vec) ==
    R(400, [error |-> msg, status |-> "error", timestamp |-> "now"], vec)

predict(m, fi, pat, hay_json, laxo, data) ==
    IF m = None \/ fi = None THEN
        R(500, [error |-> "Modelo no cargado correctamente"], <<>>)
    ELSE IF ~hay_json /\ ~laxo THEN
        ErrorPrediccion("Error en prediccion: request has no JSON body", <<>>)
    ELSE IF SinDatos(hay_json, data) THEN
        R(400, [error |-> "No se enviaron datos"], <<>>)
    ELSE
    LET vec == Alinear(data, fi.features)
        y   == ModelPredict(m, vec)
    IN  IF y.raise THEN
            ErrorPrediccion("Error en prediccion: could not convert to float", vec)
        ELSE
        LET prediccion_base == y.y
            provincia     == Get(data, "provincia", Str("PICHINCHA"))
            dia_semana    == Get(data, "dia_semana", Entero(1))
            es_vacaciones == Get(data, "Es_Vacaciones", Entero(0))
            mes           == Get(data, "Mes", Entero(1))
            resultado_correccion ==
                aplicar_correccion_avanzada(pat, prediccion_base, provincia,
                                            dia_semana, es_vacaciones, mes)
            afluencia_final == resultado_correccion.prediccion_corregida
            categoria_info  == categorizar_afluencia(afluencia_final)
        IN  IF provincia.t # "str" THEN
                ErrorPrediccion("Error en prediccion: no attribute 'upper'", vec)
            ELSE
            R(200,
              [prediccion |->
                  [afluencia       |-> RoundTo(afluencia_final, Centesima),
                   prediccion_base |-> prediccion_base,
                   categoria       |-> categoria_info.categoria,
                   recomendacion   |-> categoria_info.recomendacion],
               detalles |->
                  [provincia     |-> Upper(provincia.s),
                   dia_semana    |-> dia_semana,
                   mes           |-> mes,
                   es_vacaciones |-> Truthy(es_vacaciones),
                   factores_aplicados |->
                       resultado_correccion.factores_aplicados,
                   factor_total  |->
                       RoundTo(resultado_correccion.factor_total, Milesima)],
               metadata |->
                  [timestamp |-> "now",
                   modelo    |-> "RandomForest - Turismo Ecuador v1.0",
                   status    |-> "success"]],
              vec)

\* The except branch of predict_simple.
ErrorSimple(msg, vec) == R(400, [error |-> msg, success |-> FALSE], vec)

predict_simple(m, fi, pat, hay_json, laxo, data) ==
    IF ~hay_json /\ ~laxo THEN
        ErrorSimple("request has no JSON body", <<>>)
    ELSE IF SinDatos(hay_json, data) THEN
        R(400, [error |-> "No data provided"], <<>>)
    ELSE IF fi = None THEN
        ErrorSimple("'NoneType' object is not subscriptable", <<>>)
    ELSE IF m = None THEN
        ErrorSimple("'NoneType' object has no attribute 'predict'", <<>>)
    ELSE
    LET vec == Alinear(data, fi.features)
        y   == ModelPredict(m, vec)
    IN  IF y.raise THEN
            ErrorSimple("could not convert string to float", vec)
        ELSE
        LET prediccion == y.y
            provincia  == Get(data, "provincia", Str("PICHINCHA"))
            dia_semana == Get(data, "dia_semana", Entero(1))
            mes        == Get(data, "Mes", Entero(1))
            resultado  == aplicar_correccion_avanzada(pat, prediccion, provincia,
                                                      dia_semana, Entero(0), mes)
            afluencia  == RoundTo(resultado.prediccion_corregida, Centesima)
        IN  R(200,
              [afluencia |-> afluencia,
               categoria |->
                   categorizar_afluencia(afluencia * Centesima).categoria,
               success   |-> TRUE],
              vec)

(***************************************************************************)
(* Bounds and input domains                                                *)
(***************************************************************************)
MaxMes  == 13     \* months 0..MaxMes are tried (1..12 are in the table)
MaxDia  == 7      \* weekdays 0..MaxDia are tried ("0".."6" may be keys)
MaxBase == 3      \* base predictions 0, 11.11, .. MaxBase * 11.11
MaxAfluencia == 40  \* categorizar_afluencia is tried on -1 .. MaxAfluencia

\* Entries of the correction tables as patrones_correccion.json may hold them.
Entrada(f) == [map |-> TRUE, f |-> f]
NoEsObjeto == [map |-> FALSE, f |-> Absent]
EntradasProvincia ==
    {Entrada(Flt(24)), Entrada(Absent), NoEsObjeto, Entrada(Str("alto"))}
EntradasDia == {Entrada(Flt(22)), Entrada(Entero(1)), NoEsObjeto, Entrada(None)}

Patrones(e1, e2) ==
    [PATRONES_PROVINCIA  |-> ("PICHINCHA" :> e1) @@ ("GUAYAS" :> Entrada(Flt(16))),
     PATRONES_DIA_SEMANA |-> ("1" :> e2) @@ ("6" :> Entrada(Flt(26)))]
PatronesPosibles ==
    {Patrones(e1, e2) : e1 \in EntradasProvincia, e2 \in EntradasDia}
\* The tables the service is started with.
PatronesCargables ==
    {Patrones(e1, e2) : e1 \in {Entrada(Flt(24)), NoEsObjeto, Entrada(Str("alto"))},
                        e2 \in {Entrada(Flt(22)), NoEsObjeto}}

BienFormada(e) == e.map /\ (e.f = Absent \/ IsNumber(e.f))
BienFormados(pat) ==
    /\ pat # None
    /\ \A k \in DOMAIN pat.PATRONES_PROVINCIA : BienFormada(pat.PATRONES_PROVINCIA[k])
    /\ \A k \in DOMAIN pat.PATRONES_DIA_SEMANA : BienFormada(pat.PATRONES_DIA_SEMANA[k])

\* The loadable regressors (intercepts, in hundredths).
Modelos == {[t |-> "modelo", i |-> b, s |-> ""] : b \in {1200, 3331}}

\* Request records.
Registros ==
    [provincia     : {Absent, Str("xx"), Entero(5)},
     dia_semana    : {Absent, Entero(9)},
     Es_Vacaciones : {Absent, Entero(0), Entero(1)},
     Mes           : {Absent, Entero(2), Entero(MaxMes)},
     Temperatura   : {Absent, Entero(1), Str("templado")}]
Vacio == [k \in Keys |-> Absent]
Cuerpos ==
    {[hay_json |-> TRUE, data |-> d] : d \in Registros}
        \cup {[hay_json |-> FALSE, data |-> Vacio]}

NoReq  == [endpoint |-> "", hay_json |-> FALSE, data |-> Vacio]
NoResp == [code |-> 0, body |-> [none |-> TRUE]]

\* Arguments of the direct calls of aplicar_correccion_avanzada.
ArgsCorr ==
    [prediccion_base : {1111 * k : k \in 0..MaxBase},
     provincia       : {Str("pichincha"), Str("GUAYAS"), Str("xx"), Entero(5)},
     dia_semana      : {Entero(n) : n \in 0..MaxDia} \cup {Str("1")},
     es_vacaciones   : {Entero(0), Entero(1), Str("si")},
     mes             : {Entero(n) : n \in 0..MaxMes} \cup {Str("7")}]
CorrPendiente ==
    [prediccion_corregida |-> 0, factores_aplicados |-> [none |-> TRUE],
     factor_total |-> 0]
CorrIdle ==
    [args |-> [prediccion_base |-> 0, provincia |-> None, dia_semana |-> None,
               es_vacaciones |-> None, mes |-> None],
     done |-> TRUE, res |-> CorrPendiente]

\* Arguments of the direct calls of categorizar_afluencia: every half unit,
\* and the values next to the three thresholds.
ValoresCat ==
    {k * (Unidad \div 2) : k \in -2..(2 * MaxAfluencia)}
        \cup {u * Unidad + e : u \in {15, 25, 35}, e \in {-1, 1}}
CatPendiente == [categoria |-> "", recomendacion |-> ""]

(***************************************************************************)
(* The service                                                             *)
(***************************************************************************)
Init ==
    /\ pc = "start"
    /\ modelo = None
    /\ features_info = None
    /\ patrones = None
    /\ req = NoReq
    /\ resp = NoResp
    /\ vector = <<>>
    /\ prev = NoResp
    /\ corr = CorrIdle
    /\ catLog = <<>>

\* cargar_modelo, then the launch path: `paso` is the load that raises
\* (4: none does).  After a failure python app.py (launch = "main") does not
\* start the server; under gunicorn (launch = "managed") the module is only
\* imported and the service runs anyway.
cargar_modelo ==
    /\ pc = "start"
    /\ \E paso \in 1..4, m \in Modelos, p \in PatronesCargables,
          launch \in {"main", "managed"} :
        /\ modelo' = IF paso > 1 THEN m ELSE None
        /\ features_info' = IF paso > 2 THEN [features |-> Schema] ELSE None
        /\ patrones' = IF paso > 3 THEN p ELSE None
        /\ pc' = IF paso = 4 \/ launch = "managed" THEN "serving" ELSE "exited"
    /\ UNCHANGED <<req, resp, vector, prev, corr, catLog>>

Responder(endpoint, c, r, anterior) ==
    /\ req' = [endpoint |-> endpoint, hay_json |-> c.hay_json, data |-> c.data]
    /\ resp' = [code |-> r.code, body |-> r.body]
    /\ vector' = r.vector
    /\ prev' = anterior
    /\ UNCHANGED <<pc, modelo, features_info, patrones, corr, catLog>>

SinCuerpo == [hay_json |-> FALSE, data |-> Vacio]

Home ==
    /\ pc = "serving"
    /\ Responder("/", SinCuerpo, R(200, [status |-> "activo"], <<>>), NoResp)

Health ==
    /\ pc = "serving"
    /\ Responder("/health", SinCuerpo, health(modelo, features_info, patrones),
                 NoResp)

GetFeatures ==
    /\ pc = "serving"
    /\ Responder("/features", SinCuerpo, get_features(features_info), NoResp)

\* The record of /predict/simple with the holiday flag set to false.
SinVacaciones(data) ==
    [data EXCEPT !["Es_Vacaciones"] = IF Truthy(@) THEN Entero(0) ELSE @]
Pareja(simple, full) ==
    /\ simple.hay_json /\ full.hay_json
    /\ full.data = SinVacaciones(simple.data)

\* request.json without a JSON body raises or answers None, by Flask version.
Laxos(c) == IF c.hay_json THEN {FALSE} ELSE BOOLEAN

Predict ==
    /\ pc = "serving"
    /\ \E c \in Cuerpos : \E laxo \in Laxos(c) :
         Responder("/predict", c,
                   predict(modelo, features_info, patrones, c.hay_json, laxo, c.data),
                   IF req.endpoint = "/predict/simple" /\ Pareja(req, c)
                   THEN resp ELSE NoResp)

PredictSimple ==
    /\ pc = "serving"
    /\ \E c \in Cuerpos : \E laxo \in Laxos(c) :
         Responder("/predict/simple", c,
                   predict_simple(modelo, features_info, patrones, c.hay_json,
                                  laxo, c.data),
                   IF req.endpoint = "/predict" /\ Pareja(c, req)
                   THEN resp ELSE NoResp)

Next == cargar_modelo \/ Home \/ Health \/ GetFeatures \/ Predict \/ PredictSimple

Spec == Init /\ [][Next]_vars

(***************************************************************************)
(* Direct calls of aplicar_correccion_avanzada                             *)
(***************************************************************************)
InitCorr ==
    /\ pc = "serving"
    /\ modelo \in Modelos
    /\ features_info = [features |-> Schema]
    /\ patrones \in PatronesPosibles
    /\ req = NoReq
    /\ resp = NoResp
    /\ vector = <<>>
    /\ prev = NoResp
    /\ corr \in {[args |-> a, done |-> FALSE, res |-> CorrPendiente] : a \in ArgsCorr}
    /\ catLog = <<>>

Corregir ==
    /\ ~corr.done
    /\ corr' = [corr EXCEPT
                   !.done = TRUE,
                   !.res = aplicar_correccion_avanzada(
                               patrones, corr.args.prediccion_base,
                               corr.args.provincia, corr.args.dia_semana,
                               corr.args.es_vacaciones, corr.args.mes)]
    /\ UNCHANGED <<pc, modelo, features_info, patrones, req, resp, vector,
                   prev, catLog>>

SpecCorr == InitCorr /\ [][Corregir]_vars

(***************************************************************************)
(* Direct calls of categorizar_afluencia                                   *)
(***************************************************************************)
InitCat ==
    /\ pc = "serving"
    /\ modelo = None
    /\ features_info = None
    /\ patrones = None
    /\ req = NoReq
    /\ resp = NoResp
    /\ vector = <<>>
    /\ prev = NoResp
    /\ corr = CorrIdle
    /\ catLog \in {<<[v |-> a, res |-> CatPendiente], [v |-> b, res |-> CatPendiente]>> :
                      a \in ValoresCat, b \in ValoresCat}

Categorizar ==
    /\ \E n \in 1..Len(catLog) :
        /\ catLog[n].res = CatPendiente
        /\ catLog' = [catLog EXCEPT ![n].res = categorizar_afluencia(catLog[n].v)]
    /\ UNCHANGED <<pc, modelo, features_info, patrones, req, resp, vector,
                   prev, corr>>

SpecCat == InitCat /\ [][Categorizar]_vars

(***************************************************************************)
(* Properties                                                              *)
(***************************************************************************)
EsPrediccion == req.endpoint \in {"/predict", "/predict/simple"}
CuerpoVacio == ~req.hay_json \/ \A k \in Keys : req.data[k] = Absent
TodoCargado == modelo # None /\ features_info # None /\ patrones # None
Bandas == <<"BAJA", "MEDIA", "ALTA", "MUY ALTA">>
Rango(c) == CHOOSE n \in 1..4 : Bandas[n] = c

\* C1: for every successful /predict response, categorizing the returned
\* 'afluencia' (the corrected value rounded to 2 decimals) gives the band
\* of the 'categoria' field of that same response.
C1_RoundTrip ==
    (req.endpoint = "/predict" /\ resp.code = 200) =>
        categorizar_afluencia(resp.body.prediccion.afluencia * Centesima).categoria
            = resp.body.prediccion.categoria

\* C2 (as stated): in every reachable state, loaded or not, a /predict
\* request with an empty or absent body is answered 400 with an 'error'
\* field, never 500.
C2_EmptyBodyAlways400 ==
    (req.endpoint = "/predict" /\ CuerpoVacio) =>
        (resp.code = 400 /\ "error" \in DOMAIN resp.body)

\* C2 (amended): a /predict request with an empty or absent body is answered
\* 400 with an 'error' field whenever the model and the feature schema are
\* loaded (whatever the state of the correction tables), and 500 with an
\* 'error' field when the model or the feature schema is not loaded.
C2_EmptyBody400WhenLoaded ==
    (req.endpoint = "/predict" /\ CuerpoVacio) =>
        /\ "error" \in DOMAIN resp.body
        /\ resp.code = IF modelo # None /\ features_info # None THEN 400 ELSE 500

C2_Witness ==
    /\ req.endpoint = "/predict" /\ req.hay_json /\ CuerpoVacio
    /\ modelo # None /\ features_info # None /\ patrones = None
    /\ resp.code = 400

\* C3: whenever one of the three startup resources is not loaded, every
\* prediction request with a non-empty body, on /predict and on
\* /predict/simple, is refused with HTTP 500.
C3_RefusedWhenUnloaded ==
    (EsPrediccion /\ ~CuerpoVacio /\ ~TodoCargado) => resp.code = 500

\* C4: the simple and the full variant agree: when /predict succeeds on a
\* record whose holiday flag is false, /predict/simple on the same record
\* (or on that record with a truthy holiday flag) succeeds too and returns
\* the same 'afluencia' and the same 'categoria'.
C4_SimpleEqualsFull ==
    LET full   == IF req.endpoint = "/predict" THEN resp ELSE prev
        simple == IF req.endpoint = "/predict" THEN prev ELSE resp
    IN  (EsPrediccion /\ prev # NoResp /\ full.code = 200) =>
            /\ simple.code = 200
            /\ simple.body.afluencia = full.body.prediccion.afluencia
            /\ simple.body.categoria = full.body.prediccion.categoria

\* The request reaches the correction step and the step reads a malformed
\* table entry (not an object, or with a factor that is not a number).
TocaMalFormada ==
    LET provincia == Get(req.data, "provincia", Str("PICHINCHA"))
        dia       == PyStr(Get(req.data, "dia_semana", Entero(1)))
        tp        == patrones.PATRONES_PROVINCIA
        td        == patrones.PATRONES_DIA_SEMANA
    IN  /\ provincia.t = "str"
        /\ \/ Upper(provincia.s) \in DOMAIN tp /\ ~BienFormada(tp[Upper(provincia.s)])
           \/ dia \in DOMAIN td /\ ~BienFormada(td[dia])
AlcanzaCorreccion ==
    /\ req.endpoint = "/predict" /\ ~CuerpoVacio /\ TodoCargado
    /\ vector # <<>> /\ \A n \in 1..Len(vector) : IsNumber(vector[n])

\* C5: when the correction step of /predict hits a malformed correction-table
\* entry the request is answered 200, the corrected value equals the base
\* prediction, factor_total is 1.0 and 'factores_aplicados' carries an
\* 'error' entry.
C5_MalformedEntryDegrades ==
    (AlcanzaCorreccion /\ TocaMalFormada) =>
        /\ resp.code = 200
        /\ resp.body.prediccion.afluencia = resp.body.prediccion.prediccion_base
        /\ resp.body.detalles.factor_total = 1000
        /\ "error" \in DOMAIN resp.body.detalles.factores_aplicados

C5_Witness ==
    /\ AlcanzaCorreccion /\ TocaMalFormada
    /\ ~patrones.PATRONES_DIA_SEMANA["1"].map
    /\ "dia_semana" \notin Cols(req.data)
    /\ resp.code = 200
    /\ resp.body.prediccion.prediccion_base > 0

\* The seasonal table of the specification (section 4.2), in twentieths.
TablaEstacional == <<22, 21, 19, 18, 18, 24, 25, 26, 18, 19, 20, 23>>

\* C6: with well-formed tables and a string province, factor_total is the
\* product of the four reported factors, each of which is 1.0 when no rule
\* matches (the seasonal one is the table value for months 1..12), and
\* prediccion_corregida is prediccion_base times factor_total.
C6_FactorTotalIsProduct ==
    (corr.done /\ BienFormados(patrones) /\ corr.args.provincia.t = "str") =>
        LET a == corr.args
            f == corr.res.factores_aplicados
        IN  /\ DOMAIN f = {"provincia", "dia_semana", "vacaciones", "estacional"}
            /\ corr.res.factor_total
                   = f.provincia * f.dia_semana * f.vacaciones * f.estacional
            /\ corr.res.prediccion_corregida
                   = a.prediccion_base * corr.res.factor_total
            /\ Upper(a.provincia.s) \notin DOMAIN patrones.PATRONES_PROVINCIA
                   => f.provincia = Uno
            /\ PyStr(a.dia_semana) \notin DOMAIN patrones.PATRONES_DIA_SEMANA
                   => f.dia_semana = Uno
            /\ f.vacaciones = IF Truthy(a.es_vacaciones) THEN 23 ELSE Uno
            /\ f.estacional = IF a.mes.t = "int" /\ a.mes.i \in 1..12
                              THEN TablaEstacional[a.mes.i] ELSE Uno

C6_Witness ==
    /\ corr.done /\ BienFormados(patrones)
    /\ corr.args.provincia = Str("pichincha")
    /\ corr.args.dia_semana = Entero(6)
    /\ Truthy(corr.args.es_vacaciones)
    /\ corr.args.mes = Entero(8)
    /\ corr.args.prediccion_base > 0
    /\ corr.res.factores_aplicados.provincia = 24
    /\ corr.res.factor_total = 24 * 26 * 23 * 26

\* The band the specification gives a value (section 4.3).
BandaEsperada(v) ==
    IF v >= 35 * Unidad THEN "MUY ALTA"
    ELSE IF v >= 25 * Unidad THEN "ALTA"
    ELSE IF v >= 15 * Unidad THEN "MEDIA"
    ELSE "BAJA"

\* C7: categorizar_afluencia always returns exactly one of the four bands,
\* closed at the lower edge (>= 35 MUY ALTA, >= 25 ALTA, >= 15 MEDIA, else
\* BAJA), and a higher value never yields a lower band.
C7_TotalMonotonic ==
    /\ \A n \in 1..Len(catLog) :
           catLog[n].res # CatPendiente =>
               /\ catLog[n].res.categoria \in {Bandas[k] : k \in 1..4}
               /\ catLog[n].res.categoria = BandaEsperada(catLog[n].v)
    /\ \A n, k \in 1..Len(catLog) :
           (catLog[n].res # CatPendiente /\ catLog[k].res # CatPendiente
               /\ catLog[n].v <= catLog[k].v) =>
               Rango(catLog[n].res.categoria) <= Rango(catLog[k].res.categoria)

C7_Witness ==
    /\ Len(catLog) = 2
    /\ catLog[1].v = 35 * Unidad /\ catLog[1].res.categoria = "MUY ALTA"
    /\ catLog[2].v = 35 * Unidad - 1 /\ catLog[2].res.categoria = "ALTA"

\* C8: for every non-empty record the row handed to the regressor by both
\* predict endpoints has len(features) cells in the schema's order: the
\* record's value for a schema field the record carries, 0 for one it lacks;
\* record fields outside the schema are dropped.
C8_AlignedVector ==
    /\ (EsPrediccion /\ ~CuerpoVacio /\ modelo # None /\ features_info # None)
           => vector # <<>>
    /\ (EsPrediccion /\ vector # <<>>) =>
           /\ ~CuerpoVacio
           /\ Len(vector) = Len(features_info.features)
           /\ \A n \in 1..Len(vector) :
                  LET campo == features_info.features[n]
                  IN  vector[n] =
                          IF campo \in DOMAIN req.data /\ req.data[campo] # Absent
                          THEN req.data[campo] ELSE Entero(0)

C8_Witness ==
    /\ req.endpoint = "/predict/simple" /\ resp.code = 200
    /\ req.data["provincia"] # Absent
    /\ req.data["Mes"] = Entero(2)
    /\ req.data["Temperatura"] = Absent
    /\ vector = <<Entero(2), Entero(0), Entero(0)>>

\* C9: /health reports 'healthy' iff the model, the feature schema and the
\* correction tables are all loaded, and each *_cargado flag is the load
\* state of its resource; otherwise the status is 'error' and a flag is false.
C9_HealthIffLoaded ==
    (req.endpoint = "/health") =>
        /\ resp.code = 200
        /\ resp.body.status \in {"healthy", "error"}
        /\ resp.body.status = "healthy" <=> TodoCargado
        /\ resp.body.modelo_cargado = (modelo # None)
        /\ resp.body.features_cargadas = (features_info # None)
        /\ resp.body.patrones_cargados = (patrones # None)
        /\ ~TodoCargado =>
               \/ ~resp.body.modelo_cargado
               \/ ~resp.body.features_cargadas
               \/ ~resp.body.patrones_cargados

C9_Witness ==
    /\ req.endpoint = "/health"
    /\ modelo # None /\ features_info # None /\ patrones = None
    /\ resp.body.status = "error"
    /\ ~resp.body.patrones_cargados

\* C10: every HTTP 400 response of /predict carries an 'error' field,
\* 'status' equal to "error", and a 'timestamp'.
C10_Every400HasErrorShape ==
    (req.endpoint = "/predict" /\ resp.code = 400) =>
        /\ {"error", "status", "timestamp"} \subseteq DOMAIN resp.body
        /\ resp.body.status = "error"

====
